---- MODULE Spec2Model ----
(***************************************************************************)
(* A model of src/todo.py: the command-line to-do list with deadlines.     *)
(*                                                                         *)
(* Text (descriptions, deadlines, id arguments) is a sequence of one-      *)
(* character strings, so that strip(), int() and strptime() are computed   *)
(* rather than assumed.  The file todo.json is a sequence of JSON tokens;  *)
(* open(..., "w") truncates it and a write puts tokens at offset 0 of the  *)
(* writer's own descriptor.  One invocation of the program is one process  *)
(* that goes through  idle -> load -> open -> write -> done.               *)
(***************************************************************************)
EXTENDS Integers, Sequences, FiniteSets, TLC

VARIABLES file, pc, argv, tasks, out, log, pre, lastSaver, env

vars == <<file, pc, argv, tasks, out, log, pre, lastSaver, env>>

\* ---------------------------------------------------------------- bounds
MaxTasks == 3
NumProcs == 2

Procs == 1..NumProcs

\* ------------------------------------------------------------------ text
Str0 == <<>>
None == <<"None">>

Whitespace == {" "}
Digits == {"0", "1", "2", "3", "4", "5", "6", "7", "8", "9"}

DigitVal(c) ==
    CASE c = "0" -> 0 [] c = "1" -> 1 [] c = "2" -> 2 [] c = "3" -> 3
      [] c = "4" -> 4 [] c = "5" -> 5 [] c = "6" -> 6 [] c = "7" -> 7
      [] c = "8" -> 8 [] c = "9" -> 9

RECURSIVE LStrip(_)
LStrip(s) ==
    IF s # <<>> /\ Head(s) \in Whitespace THEN LStrip(Tail(s)) ELSE s

RECURSIVE RStrip(_)
RStrip(s) ==
    IF s # <<>> /\ s[Len(s)] \in Whitespace
    THEN RStrip(SubSeq(s, 1, Len(s) - 1))
    ELSE s

\* str.strip()
Strip(s) == RStrip(LStrip(s))

AllDigits(s) == \A i \in 1..Len(s) : s[i] \in Digits

RECURSIVE Number(_)
Number(s) ==
    IF s = <<>> THEN 0
    ELSE 10 * Number(SubSeq(s, 1, Len(s) - 1)) + DigitVal(s[Len(s)])

\* int(task_id): surrounding whitespace and one sign are accepted, then at
\* least one digit; anything else raises ValueError (ok = FALSE).
ParseInt(s) ==
    LET t == Strip(s)
        signed == t # <<>> /\ t[1] \in {"+", "-"}
        d == IF signed THEN Tail(t) ELSE t
    IN  IF d # <<>> /\ AllDigits(d)
        THEN [ok |-> TRUE,
              val |-> IF signed /\ t[1] = "-" THEN 0 - Number(d) ELSE Number(d)]
        ELSE [ok |-> FALSE, val |-> 0]

IsLeap(y) == (y % 4 = 0 /\ y % 100 # 0) \/ y % 400 = 0

DaysInMonth(y, m) ==
    IF m = 2 THEN (IF IsLeap(y) THEN 29 ELSE 28)
    ELSE IF m \in {4, 6, 9, 11} THEN 30 ELSE 31

\* The text strptime's %m accepts: 1[0-2] | 0[1-9] | [1-9]
MonthText(s) ==
    \/ Len(s) = 2 /\ s[1] = "1" /\ s[2] \in {"0", "1", "2"}
    \/ Len(s) = 2 /\ s[1] = "0" /\ s[2] \in Digits \ {"0"}
    \/ Len(s) = 1 /\ s[1] \in Digits \ {"0"}

\* The text strptime's %d accepts: 3[01] | [12]\d | 0[1-9] | [1-9] | " "[1-9]
DayText(s) ==
    \/ Len(s) = 2 /\ s[1] = "3" /\ s[2] \in {"0", "1"}
    \/ Len(s) = 2 /\ s[1] \in {"1", "2"} /\ s[2] \in Digits
    \/ Len(s) = 2 /\ s[1] \in {"0", " "} /\ s[2] \in Digits \ {"0"}
    \/ Len(s) = 1 /\ s[1] \in Digits \ {"0"}

\* datetime.strptime(date_str, "%Y-%m-%d") succeeds: four year digits, "-",
\* a month text, "-", a day text, nothing before or after, and the date is
\* a date of the calendar.
validate_date(s) ==
    /\ Len(s) >= 8
    /\ AllDigits(SubSeq(s, 1, 4))
    /\ s[5] = "-"
    /\ \E k \in 7..8 :
         /\ k < Len(s)
         /\ s[k] = "-"
         /\ MonthText(SubSeq(s, 6, k - 1))
         /\ DayText(SubSeq(s, k + 1, Len(s)))
         /\ LET y == Number(SubSeq(s, 1, 4))
                m == Number(SubSeq(s, 6, k - 1))
                d == Number(LStrip(SubSeq(s, k + 1, Len(s))))
            IN  y >= 1 /\ d <= DaysInMonth(y, m)

\* Python's truth value of the deadline argument: None and "" are false.
Truthy(d) == d # None /\ d # Str0

\* ------------------------------------------------------------- the store
NullTask == [id |-> 0, description |-> Str0, completed |-> FALSE, deadline |-> None]

\* JSON tokens of todo.json.  "obj" is one task object; "dict" is the text {}
\* (valid JSON that is no list); "bad" is a byte that does not decode.
LB == [kind |-> "[", task |-> NullTask]
RB == [kind |-> "]", task |-> NullTask]
Obj(t) == [kind |-> "obj", task |-> t]
DictTok == [kind |-> "dict", task |-> NullTask]
BadByte == [kind |-> "bad", task |-> NullTask]

\* json.dump(tasks, f, indent=4): the text written for a list of tasks.
Serialize(items) == <<LB>> \o [i \in 1..Len(items) |-> Obj(items[i])] \o <<RB>>

Absent == [exists |-> FALSE, content |-> <<>>]
Stored(c) == [exists |-> TRUE, content |-> c]

\* Lines 20-23: TODO_FILE.write_text(json.dumps([])) when the file is absent.
EnsureFile(f) == IF f.exists THEN f ELSE Stored(Serialize(<<>>))

IsListText(c) ==
    /\ Len(c) >= 2
    /\ c[1] = LB
    /\ c[Len(c)] = RB
    /\ \A i \in 2..(Len(c) - 1) : c[i].kind = "obj"

ListValue(items) == [type |-> "list", items |-> items]
DictValue == [type |-> "dict", items |-> <<>>]

\* load_tasks(): json.load of the file's text.  A byte that does not decode
\* raises UnicodeDecodeError (a ValueError, not a JSONDecodeError), which
\* load_tasks does not catch; text that is no JSON document raises
\* JSONDecodeError, which it turns into []; any JSON document is returned as
\* parsed, a list or not.
load_tasks(f) ==
    LET c == f.content IN
    IF \E i \in 1..Len(c) : c[i].kind = "bad"
    THEN [raised |-> TRUE, value |-> ListValue(<<>>), logged |-> <<>>]
    ELSE IF c = <<DictTok>>
    THEN [raised |-> FALSE, value |-> DictValue, logged |-> <<"loaded">>]
    ELSE IF IsListText(c)
    THEN [raised |-> FALSE,
          value |-> ListValue([i \in 1..(Len(c) - 2) |-> c[i + 1].task]),
          logged |-> <<"loaded">>]
    ELSE [raised |-> FALSE, value |-> ListValue(<<>>), logged |-> <<"decode failed">>]

\* A write of data at offset 0 of a descriptor: what the file held beyond
\* the data stays.
Overwrite(old, data) == data \o SubSeq(old, Len(data) + 1, Len(old))

\* add_task numbering the new task by the length before the append, less one.
NewTaskStaleId(items, description, deadline) ==
    [id |-> Len(items),
     description |-> Strip(description),
     completed |-> FALSE,
     deadline |-> IF Truthy(deadline) THEN Strip(deadline) ELSE None]

\* add_task storing the description as typed.
NewTaskUntrimmed(items, description, deadline) ==
    [id |-> Len(items) + 1,
     description |-> description,
     completed |-> FALSE,
     deadline |-> IF Truthy(deadline) THEN Strip(deadline) ELSE None]

\* The task add_task builds (lines 69-74).
NewTask(items, description, deadline) ==
    [id |-> Len(items) + 1,
     description |-> Strip(description),
     completed |-> FALSE,
     deadline |-> IF Truthy(deadline) THEN Strip(deadline) ELSE None]

\* update_deadline's scan (lines 103-104): the first task whose id is n, 0
\* when there is none.
FindTask(items, n) ==
    IF \E i \in 1..Len(items) : items[i].id = n
    THEN CHOOSE i \in 1..Len(items) :
           items[i].id = n /\ \A j \in 1..(i - 1) : items[j].id # n
    ELSE 0

\* update_deadline's loop going on after the match, without the id test.
SetDeadlineOnward(items, i, deadline) ==
    [j \in 1..Len(items) |->
        IF j >= i THEN [items[j] EXCEPT !.deadline = deadline] ELSE items[j]]

\* task["deadline"] = deadline (line 105)
SetDeadline(items, i, deadline) ==
    [items EXCEPT ![i] = [@ EXCEPT !.deadline = deadline]]

\* ---------------------------------------------------------------- inputs
Txt_A == <<" ", "A", " ">>
Txt_B == <<"B">>
Descriptions == {Str0, <<" ">>, Txt_A, Txt_B}

D_ok == <<"2", "0", "2", "5", "-", "0", "2", "-", "0", "1">>
D_short == <<"2", "0", "2", "4", "-", "2", "-", "2", "9">>
D_month13 == <<"2", "0", "2", "5", "-", "1", "3", "-", "0", "1">>
D_feb30 == <<"2", "0", "2", "5", "-", "0", "2", "-", "3", "0">>
Deadlines == {Str0, D_ok, D_short, D_month13, D_feb30}

IdArgs == {<<"1">>, <<" ", "2">>, <<"x">>}

Commands == {"add", "LIST", "complete", "delete", "update-deadline", "help", "bogus"}

\* sys.argv of one invocation: argc counts the program's name too.
Argv(n, c, a) == [argc |-> n, command |-> c, args |-> a]

ArgLists(c) ==
    CASE c = "add" ->
           {<<>>} \cup {<<d>> : d \in Descriptions}
                  \cup {<<d, dl>> : d \in Descriptions, dl \in Deadlines}
      [] c \in {"complete", "delete"} -> {<<>>} \cup {<<i>> : i \in IdArgs}
      [] c = "update-deadline" ->
           {<<>>} \cup {<<i>> : i \in IdArgs}
                  \cup {<<i, dl>> : i \in IdArgs, dl \in Deadlines}
      [] OTHER -> {<<>>}

Invocations ==
    {Argv(1, "", <<>>)}
      \cup UNION {{Argv(2 + Len(a), c, a) : a \in ArgLists(c)} : c \in Commands}

\* str.lower() of the command word
Lower(c) == IF c = "LIST" THEN "list" ELSE c

\* ---------------------------------------------------------------- output
Msg(m) == [msg |-> m, task |-> NullTask]
\* One line of list_tasks (lines 89-91): the deadline shows when it is truthy.
Line(t) ==
    [msg |-> "line",
     task |-> [t EXCEPT !.deadline = IF Truthy(t.deadline) THEN t.deadline ELSE None]]

\* Where an invocation ends: what it printed and logged.
Finish(p, printed, logged) ==
    /\ pc' = [pc EXCEPT ![p] = "done"]
    /\ out' = [out EXCEPT ![p] = printed]
    /\ log' = [log EXCEPT ![p] = log[p] \o logged]

Running(p) == pc[p] \in {"load", "open", "write"}

\* The invocations that may start: one at a time, or each process once when
\* the environment runs two side by side.
MayStart(p) ==
    IF env.concurrent
    THEN pc[p] = "idle"
    ELSE p = 1 /\ ~Running(p)

\* The guards of add_task before it loads (lines 59-66): the message it
\* prints, "" when it goes on.
add_task_guard(description, deadline) ==
    IF Strip(description) = Str0 THEN "empty description"
    ELSE IF Truthy(deadline) /\ ~validate_date(deadline) THEN "invalid date"
    ELSE ""

\* The dispatch of __main__ (lines 141-179) up to the first load: the message
\* printed when the invocation ends there, "" when the handler goes on to
\* load.  complete_task and delete_task are names the module never defines:
\* calling them raises NameError, which the last handler reports.
Dispatch(a) ==
    LET command == Lower(a.command) IN
    IF a.argc < 2 THEN <<"help">>
    ELSE IF command = "add" THEN
        IF a.argc < 3 THEN <<"description required">>
        ELSE LET g == add_task_guard(a.args[1],
                                     IF a.argc > 3 THEN a.args[2] ELSE None)
             IN  IF g = "" THEN <<>> ELSE <<g>>
    ELSE IF command = "list" THEN <<>>
    ELSE IF command \in {"complete", "delete"} THEN
        IF a.argc < 3 THEN <<"id required">> ELSE <<"unexpected error">>
    ELSE IF command = "update-deadline" THEN
        IF a.argc < 4 THEN <<"id and deadline required">>
        ELSE IF ~validate_date(a.args[2]) THEN <<"invalid date">>
        ELSE <<>>
    ELSE IF command = "help" THEN <<"help">>
    ELSE <<"unknown command", "help">>

\* logging.info of line 22
StartLog(f) == IF f.exists THEN <<>> ELSE <<"file created">>

\* One run of the program starts: the module's top level creates the file
\* when it is absent, then __main__ dispatches on sys.argv.
Invoke(p, a) ==
    /\ MayStart(p)
    /\ Lower(a.command) = "add" => Len(file.content) < MaxTasks + 2
    /\ argv' = [argv EXCEPT ![p] = a]
    /\ pre' = [pre EXCEPT ![p] = file]
    /\ file' = EnsureFile(file)
    /\ tasks' = [tasks EXCEPT ![p] = ListValue(<<>>)]
    /\ LET d == Dispatch(a) IN
       IF d = <<>>
       THEN /\ pc' = [pc EXCEPT ![p] = "load"]
            /\ out' = [out EXCEPT ![p] = <<>>]
            /\ log' = [log EXCEPT ![p] = StartLog(file)]
       ELSE /\ pc' = [pc EXCEPT ![p] = "done"]
            /\ out' = [out EXCEPT ![p] = [i \in 1..Len(d) |-> Msg(d[i])]]
            /\ log' = [log EXCEPT ![p] =
                         StartLog(file) \o
                           (IF d = <<"unexpected error">> THEN d
                            ELSE IF d = <<"empty description">> THEN d
                            ELSE <<>>)]
    /\ UNCHANGED <<lastSaver, env>>

\* What the handler prints after save_tasks returns (lines 77 and 108).
SuccessMsg(a) == IF Lower(a.command) = "add" THEN "added" ELSE "updated"

\* list_tasks after the load (lines 83-92)
Listing(v) ==
    IF v.items = <<>> THEN <<Msg("no tasks")>>
    ELSE <<Msg("your tasks")>> \o [i \in 1..Len(v.items) |-> Line(v.items[i])]

\* load_tasks() and what the handler does with the result up to save_tasks.
Load(p) ==
    /\ pc[p] = "load"
    /\ LET r == load_tasks(file)
           a == argv[p]
           command == Lower(a.command)
           v == r.value
       IN
       IF r.raised
       THEN \* UnicodeDecodeError is a ValueError: line 175 reports it
            /\ Finish(p, <<Msg("id must be a number")>>, <<>>)
            /\ UNCHANGED tasks
       ELSE IF command = "add"
       THEN IF v.type # "list"
            THEN \* tasks.append on a dict: AttributeError, line 177
                 /\ Finish(p, <<Msg("unexpected error")>>,
                           r.logged \o <<"unexpected error">>)
                 /\ tasks' = [tasks EXCEPT ![p] = v]
            ELSE /\ tasks' = [tasks EXCEPT ![p] =
                       ListValue(Append(v.items,
                           NewTask(v.items, a.args[1],
                                   IF a.argc > 3 THEN a.args[2] ELSE None)))]
                 /\ pc' = [pc EXCEPT ![p] = "open"]
                 /\ log' = [log EXCEPT ![p] = log[p] \o r.logged]
                 /\ UNCHANGED out
       ELSE IF command = "list"
       THEN /\ Finish(p, Listing(v), r.logged)
            /\ tasks' = [tasks EXCEPT ![p] = v]
       ELSE \* update-deadline: int(task_id) is evaluated inside the loop
            IF v.items = <<>>
            THEN /\ Finish(p, <<Msg("not found")>>, r.logged)
                 /\ tasks' = [tasks EXCEPT ![p] = v]
            ELSE LET n == ParseInt(a.args[1]) IN
                 IF ~n.ok
                 THEN /\ Finish(p, <<Msg("id must be a number")>>, r.logged)
                      /\ tasks' = [tasks EXCEPT ![p] = v]
                 ELSE LET i == FindTask(v.items, n.val) IN
                      IF i = 0
                      THEN /\ Finish(p, <<Msg("not found")>>, r.logged)
                           /\ tasks' = [tasks EXCEPT ![p] = v]
                      ELSE /\ tasks' = [tasks EXCEPT ![p] =
                                 ListValue(SetDeadline(v.items, i, a.args[2]))]
                           /\ pc' = [pc EXCEPT ![p] = "open"]
                           /\ log' = [log EXCEPT ![p] = log[p] \o r.logged]
                           /\ UNCHANGED out
    /\ UNCHANGED <<file, argv, pre, lastSaver, env>>

\* What the environment lets open() and write() do: with faults, open may
\* raise, and the write may stop after any part of the text.
OpenOutcomes == IF env.faults THEN {TRUE, FALSE} ELSE {TRUE}
WriteOutcomes(n) == IF env.faults THEN 0..n ELSE {n}

\* save_tasks, line 41: open(TODO_FILE, "w") empties the file.  When it
\* raises, line 45 logs it and the handler goes on to report success.
Open(p) ==
    /\ pc[p] = "open"
    /\ \E ok \in OpenOutcomes :
         IF ok
         THEN /\ file' = Stored(<<>>)
              /\ pc' = [pc EXCEPT ![p] = "write"]
              /\ UNCHANGED <<out, log>>
         ELSE /\ Finish(p, <<Msg(SuccessMsg(argv[p]))>>, <<"save failed">>)
              /\ UNCHANGED file
    /\ UNCHANGED <<argv, tasks, pre, lastSaver, env>>

\* save_tasks, lines 42-45: json.dump writes the text at the start of the
\* file; a failure part-way leaves what was written; either way the handler
\* then reports success.
Write(p) ==
    /\ pc[p] = "write"
    /\ LET data == Serialize(tasks[p].items) IN
       \E k \in WriteOutcomes(Len(data)) :
         /\ file' = Stored(Overwrite(file.content, SubSeq(data, 1, k)))
         /\ Finish(p, <<Msg(SuccessMsg(argv[p]))>>,
                   IF k = Len(data) THEN <<"saved">> ELSE <<"save failed">>)
    /\ lastSaver' = p
    /\ UNCHANGED <<argv, tasks, pre, env>>

\* ------------------------------------------------------- specifications
Start ==
    /\ pc = [p \in Procs |-> "idle"]
    /\ argv = [p \in Procs |-> Argv(1, "", <<>>)]
    /\ tasks = [p \in Procs |-> ListValue(<<>>)]
    /\ out = [p \in Procs |-> <<>>]
    /\ log = [p \in Procs |-> <<>>]
    /\ pre = [p \in Procs |-> Absent]
    /\ lastSaver = 0

\* A fresh directory: no todo.json yet, one invocation after another.
Init ==
    /\ Start
    /\ file = Absent
    /\ env = [concurrent |-> FALSE, faults |-> FALSE]

Next ==
    \E p \in Procs :
        \/ \E a \in Invocations : Invoke(p, a)
        \/ Load(p)
        \/ Open(p)
        \/ Write(p)

Spec == Init /\ [][Next]_vars

\* The same program in an environment where the disk may fail and where
\* todo.json may have been left by something else: absent, the text {} or
\* bytes that do not decode.
InitFaulty ==
    /\ Start
    /\ file \in {Absent, Stored(<<DictTok>>), Stored(<<BadByte>>)}
    /\ env = [concurrent |-> FALSE, faults |-> TRUE]

SpecFaulty == InitFaulty /\ [][Next]_vars

\* Two invocations side by side on a store the program left: empty, or
\* holding the one task that add " A " wrote.
InitConcurrent ==
    /\ Start
    /\ file \in {Stored(Serialize(<<>>)),
                 Stored(Serialize(<<NewTask(<<>>, Txt_A, None)>>))}
    /\ env = [concurrent |-> TRUE, faults |-> FALSE]

SpecConcurrent == InitConcurrent /\ [][Next]_vars

\* ---------------------------------------------------------------- claims
Done(p) == pc[p] = "done"
Cmd(p) == Lower(argv[p].command)
Printed(p, m) == \E i \in 1..Len(out[p]) : out[p][i].msg = m
Logged(p, m) == \E i \in 1..Len(log[p]) : log[p][i] = m
Touched(p) == Logged(p, "loaded") \/ Logged(p, "decode failed")
                \/ Logged(p, "saved") \/ Logged(p, "save failed")

\* The task sequence a file holds; none when it holds no list of tasks.
StoreOf(f) ==
    IF f.exists /\ IsListText(f.content)
    THEN [i \in 1..(Len(f.content) - 2) |-> f.content[i + 1].task]
    ELSE <<>>

\* The file as the invocation of p found it (once the module's top level
\* has created it when absent), and whether it is still that.
Before(p) == IF pre[p].exists THEN pre[p] ELSE Stored(<<LB, RB>>)
Untouched(p) == file = Before(p)

Spaces(n) == [i \in 1..n |-> " "]
IsTrimOf(t, raw) ==
    /\ t # <<>>
    /\ t[1] # " "
    /\ t[Len(t)] # " "
    /\ \E i, j \in 0..Len(raw) : raw = Spaces(i) \o t \o Spaces(j)

\* C1: whenever no invocation is under way, todo.json holds a list of tasks
\* and the task at position i has id i.
C1_IdsContiguous ==
    ((\A p \in Procs : ~Running(p)) /\ file.exists) =>
        /\ IsListText(file.content)
        /\ \A i \in 1..Len(StoreOf(file)) : StoreOf(file)[i].id = i

C1_Witness ==
    /\ Done(1)
    /\ Cmd(1) = "delete"
    /\ argv[1].argc = 3
    /\ Len(StoreOf(file)) >= 2
    /\ \E i \in 1..Len(StoreOf(file)) : StoreOf(file)[i].deadline # None

\* C2: an add that reports success leaves the store one task longer, the
\* tasks it held unchanged, and the new last task with id N+1, not
\* completed, the trimmed description and the deadline given (none when no
\* deadline or an empty one was given).
C2_AddAppends ==
    \A p \in Procs :
        (Done(p) /\ Cmd(p) = "add" /\ Printed(p, "added")) =>
            LET old == StoreOf(Before(p))
                new == StoreOf(file)
                a == argv[p]
            IN  /\ IsListText(file.content)
                /\ Len(new) = Len(old) + 1
                /\ \A i \in 1..Len(old) : new[i] = old[i]
                /\ new[Len(new)].id = Len(old) + 1
                /\ new[Len(new)].completed = FALSE
                /\ IsTrimOf(new[Len(new)].description, a.args[1])
                /\ new[Len(new)].deadline =
                     (IF a.argc > 3 /\ a.args[2] # Str0 THEN a.args[2] ELSE None)
                /\ (Len(old) = 0 => Len(new) = 1 /\ new[1].id = 1)

C2_Witness ==
    /\ Done(1)
    /\ Cmd(1) = "add"
    /\ Printed(1, "added")
    /\ Len(StoreOf(Before(1))) >= 1
    /\ argv[1].argc > 3
    /\ argv[1].args[1] = Txt_A
    /\ argv[1].args[2] = D_ok
    /\ Len(StoreOf(file)) = Len(StoreOf(Before(1))) + 1

\* What delete is to leave: the tasks other than the one with id n, in
\* order, numbered from 1.
Without(items, n) ==
    LET keep == {i \in 1..Len(items) : items[i].id # n}
        nth(k) == CHOOSE i \in keep : Cardinality({j \in keep : j <= i}) = k
    IN  [k \in 1..Cardinality(keep) |-> [items[nth(k)] EXCEPT !.id = k]]

HasId(items, n) == \E i \in 1..Len(items) : items[i].id = n

\* C3: delete with a numeric id removes the task with that id, renumbers the
\* rest 1..N-1 in order and reports it; with an id no task has it reports
\* not-found and leaves the file as it was.
C3_DeleteRemoves ==
    \A p \in Procs :
        (Done(p) /\ Cmd(p) = "delete" /\ argv[p].argc >= 3
            /\ ParseInt(argv[p].args[1]).ok) =>
            LET old == StoreOf(Before(p))
                n == ParseInt(argv[p].args[1]).val
            IN  IF HasId(old, n)
                THEN /\ StoreOf(file) = Without(old, n)
                     /\ Printed(p, "deleted")
                ELSE /\ Printed(p, "not found")
                     /\ Untouched(p)

\* C4: complete with a numeric id sets the completed flag of an incomplete
\* task and reports success; on a completed task it warns and changes
\* nothing; on an id no task has it warns and changes nothing.
C4_CompleteMarks ==
    \A p \in Procs :
        (Done(p) /\ Cmd(p) = "complete" /\ argv[p].argc >= 3
            /\ ParseInt(argv[p].args[1]).ok) =>
            LET old == StoreOf(Before(p))
                n == ParseInt(argv[p].args[1]).val
            IN  IF ~HasId(old, n)
                THEN Printed(p, "not found") /\ Untouched(p)
                ELSE IF old[n].completed
                THEN Printed(p, "already completed") /\ Untouched(p)
                ELSE /\ Printed(p, "completed")
                     /\ StoreOf(file) = [old EXCEPT ![n].completed = TRUE]

\* C5: update-deadline with a date the validation rejects prints the date
\* error without loading or saving; with an accepted date and the id of a
\* task it overwrites that task's deadline and nothing else, and saves; with
\* an accepted date and a numeric id no task has it reports not-found and
\* leaves the file as it was.
C5_UpdateDeadlineFrame ==
    \A p \in Procs :
        (Done(p) /\ Cmd(p) = "update-deadline" /\ argv[p].argc >= 4) =>
            LET old == StoreOf(Before(p))
                new == StoreOf(file)
                date == argv[p].args[2]
                n == ParseInt(argv[p].args[1])
            IN  /\ ~validate_date(date) =>
                     /\ Printed(p, "invalid date")
                     /\ ~Touched(p)
                     /\ Untouched(p)
                /\ (validate_date(date) /\ n.ok /\ HasId(old, n.val)) =>
                     /\ Printed(p, "updated")
                     /\ Logged(p, "saved")
                     /\ IsListText(file.content)
                     /\ Len(new) = Len(old)
                     /\ \A i \in 1..Len(old) :
                          /\ new[i].id = old[i].id
                          /\ new[i].description = old[i].description
                          /\ new[i].completed = old[i].completed
                          /\ new[i].deadline =
                               (IF old[i].id = n.val THEN date ELSE old[i].deadline)
                /\ (validate_date(date) /\ n.ok /\ ~HasId(old, n.val)) =>
                     /\ Printed(p, "not found")
                     /\ ~Logged(p, "saved")
                     /\ Untouched(p)

C5_Witness ==
    /\ Done(1)
    /\ Cmd(1) = "update-deadline"
    /\ Printed(1, "updated")
    /\ argv[1].args[1] = <<"1">>
    /\ argv[1].args[2] = D_ok
    /\ Len(StoreOf(file)) >= 2
    /\ StoreOf(Before(1))[1].deadline = D_short
    /\ StoreOf(file)[1].deadline = D_ok
    /\ StoreOf(file)[2].deadline = D_short

\* C6: add is turned away, with no load, no save and the file as it was,
\* when the description is empty after trimming or when a deadline argument
\* is given that is no date; it is accepted with a description and a date.
C6_AddRejects ==
    \A p \in Procs :
        (Done(p) /\ Cmd(p) = "add" /\ argv[p].argc >= 3) =>
            LET a == argv[p]
                blank == \A i \in 1..Len(a.args[1]) : a.args[1][i] = " "
                given == a.argc > 3
            IN  /\ (blank \/ (given /\ ~validate_date(a.args[2]))) =>
                     /\ ~Printed(p, "added")
                     /\ ~Touched(p)
                     /\ Untouched(p)
                /\ (~blank /\ given /\ validate_date(a.args[2])) =>
                     Printed(p, "added")

\* C7: when a command has ended, the file holds the whole sequence it held
\* before the command or the whole updated sequence.
C7_AllOrNothing ==
    \A p \in Procs :
        Done(p) =>
            \/ Untouched(p)
            \/ /\ Printed(p, "added") \/ Printed(p, "updated")
               /\ file = Stored(Serialize(tasks[p].items))

\* C8: complete, delete and update-deadline with an id that is no number
\* report the id error, not not-found, and leave the file as it was.
C8_NonNumericId ==
    \A p \in Procs :
        (/\ Done(p)
         /\ \/ Cmd(p) \in {"complete", "delete"} /\ argv[p].argc >= 3
            \/ Cmd(p) = "update-deadline" /\ argv[p].argc >= 4
         /\ ~ParseInt(argv[p].args[1]).ok) =>
            /\ Printed(p, "id must be a number")
            /\ ~Printed(p, "not found")
            /\ Untouched(p)

\* C9: list (a load and nothing else) on a file that holds no list of tasks
\* gets the empty sequence from load, reports no error and leaves the file
\* as it was; an absent file is created holding the empty list first.
C9_LoadNeverFails ==
    \A p \in Procs :
        (Done(p) /\ Cmd(p) = "list") =>
            /\ ~IsListText(Before(p).content) =>
                 /\ tasks[p] = ListValue(<<>>)
                 /\ ~Printed(p, "id must be a number")
                 /\ ~Printed(p, "unexpected error")
            /\ ~pre[p].exists => tasks[p] = ListValue(<<>>)
            /\ Untouched(p)

\* C10: when two invocations that both saved have ended, the file holds
\* what the one that wrote last wrote, and neither reported an error.
C10_LastWriterWins ==
    (\A p \in Procs : Done(p) /\ Logged(p, "saved")) =>
        /\ lastSaver \in Procs
        /\ file = Stored(Serialize(tasks[lastSaver].items))
        /\ \A p \in Procs : ~Printed(p, "unexpected error")

====
